---- MODULE Spec2Model ----
(***************************************************************************)
(* Ranking computation of app.py: the nation stage                         *)
(* (load_and_calculate_data), the club stage (calculate_club_coefficients  *)
(* with its nested calculate_row_coefficient), the league-system slices of *)
(* tab6 and get_league_tier of tab7.                                       *)
(*                                                                         *)
(* Numbers.  The program computes in floating point; the model computes    *)
(* the same expressions exactly, as integers over a fixed denominator:     *)
(*   total, total2, total3   in units of 1/SubScale                        *)
(*   total4                  in units of 1/FinalScale                      *)
(*   row_coefficient         in units of 1/RowScale                        *)
(*   avg_coefficient         in units of 1/AvgScale                        *)
(*   point_avg               in units of 1/(AvgScale*FinalScale), kept as  *)
(*                           two limbs <<hi, lo>> of base Base, since the  *)
(*                           product does not fit a 32-bit integer.        *)
(* A cell that pandas holds as NaN is the value NaN.                       *)
(***************************************************************************)
EXTENDS Integers, Sequences, FiniteSets, TLC

VARIABLES
    pc,               \* position of the script: "start", "loaded", "ranked",
                      \* "tab6", "done", "error"; "idle" between two runs
    league_csv,       \* LeagueRanking.csv: sequence of raw rows
    club_csv,         \* ClubCoef.csv: sequence of raw rows
    league_df,        \* result of load_and_calculate_data
    club_df,          \* club table with row_coefficient (second result of the club stage)
    club_results_df,  \* ranked club table (first result of the club stage)
    tiers_data,       \* tab6: the four league tables, each with its Status column
    display_country,  \* tab7: the selected country's clubs with their League
    league_cache,     \* st.cache_data entries of load_and_calculate_data
    club_cache,       \* st.cache_data entries of calculate_club_coefficients
    changed,          \* the files changed since the previous run of the script
    reruns_left       \* runs of the script still to come after the current one

vars == <<pc, league_csv, club_csv, league_df, club_df, club_results_df,
          tiers_data, display_country, league_cache, club_cache, changed,
          reruns_left>>

-----------------------------------------------------------------------------
(* Bounds of the model *)

\* rating cells hold 0, 10, .., 10 * MaxRating
MaxRating == 1
\* league_points and group_points range over 0..MaxPoints
MaxPoints == 4
\* league_tier ranges over 0..MaxTier
MaxTier == 2
\* rows of the club table in the ranking specification
MaxClubRows == 3
\* season records of the one club in the aggregation specification
MaxSeasons == 6
\* records with coordinates of the one club in the aggregation specification
MaxCoordRows == 2
\* clubs in the league-system specification
MaxLeagueClubs == 94
\* runs of the script after the first one in the session specification
MaxReruns == 2
\* seconds between the storing of a cache entry and a lookup
MaxElapsed == 2

-----------------------------------------------------------------------------
(* Raw cells and numeric coercion *)

\* pandas' NaN: what pd.to_numeric(errors='coerce') yields for a missing or
\* non-numeric cell.  Every number of the model is >= 0.
NaN == -1

\* A raw CSV cell: a number, an empty cell, or text that is no number.
Num(v) == [kind |-> "num", val |-> v]
Missing == [kind |-> "missing", val |-> 0]
Text == [kind |-> "text", val |-> 0]

\* pd.to_numeric(cell, errors='coerce')
ToNumeric(cell) == IF cell.kind = "num" THEN cell.val ELSE NaN

\* Series.fillna(0)
FillNa0Bug(x) == x
FillNa0(x) == IF x = NaN THEN 0 ELSE x

\* pd.to_numeric(col, errors='coerce').fillna(0)   (line 115)
CoerceRating(cell) == FillNa0(ToNumeric(cell))

-----------------------------------------------------------------------------
(* Nation stage: load_and_calculate_data *)

\* number of seasons per rating source (lengths of uefa_cols, afc_cols, fifa_cols)
NumUefaCols == 7
NumAfcCols == 6
NumFifaCols == 8

\* weights = [0.6, 0.7, 0.8, 0.9, 1.0], in tenths
Weights == <<6, 7, 8, 9, 10>>

\* the constant divisor of the three weighted sums
Divisor == 5

\* denominators of the fixed-point values
SubScale == 10 * Divisor
FinalScale == SubScale * 10 * 100

\* cols[-5:]: the last five entries of a list of columns
Last5Bug(cols) == SubSeq(cols, 1, 5)
Last5(cols) == SubSeq(cols, Len(cols) - 4, Len(cols))

RECURSIVE SumSeq(_)
SumSeq(s) == IF s = <<>> THEN 0 ELSE Head(s) + SumSeq(Tail(s))

\* sum([row[last_5[i]] * weights[i] for i in range(len(last_5))]) / 5
\* (value * SubScale)
WeightedTotal(values) ==
    LET last_5 == Last5(values)
    IN  SumSeq([i \in 1..Len(last_5) |-> last_5[i] * Weights[i]])

\* ((total * 0.3) + (total2 * 0.1) + (total3 * 0.6)) / 100   (value * FinalScale)
Total4NoAfc(total, total2, total3) == (total * 3) + (total3 * 6)
Total4Bug(total, total2, total3) == (total * 3) + (total2 * 6) + (total3 * 1)
Total4(total, total2, total3) == (total * 3) + (total2 * 1) + (total3 * 6)

\* one row of league_df after lines 114-143
NationRow(raw) ==
    LET uefa == [i \in 1..Len(raw.uefa) |-> CoerceRating(raw.uefa[i])]
        afc == [i \in 1..Len(raw.afc) |-> CoerceRating(raw.afc[i])]
        fifa == [i \in 1..Len(raw.fifa) |-> CoerceRating(raw.fifa[i])]
        total == WeightedTotal(uefa)
        total2 == WeightedTotal(afc)
        total3 == WeightedTotal(fifa)
    IN  [country_code |-> raw.country_code,
         uefa |-> uefa, afc |-> afc, fifa |-> fifa,
         total |-> total, total2 |-> total2, total3 |-> total3,
         total4 |-> Total4(total, total2, total3)]

-----------------------------------------------------------------------------
(* Exact products and descending sorts *)

\* base of the two limbs of a product
Base == 10^5

\* a * b as <<hi, lo>> with value hi * Base + lo, for a < 2^31 and b < 10^4
Times(a, b) ==
    LET low == (a % Base) * b
    IN  <<(a \div Base) * b + (low \div Base), low % Base>>

LimbLess(p, q) == p[1] < q[1] \/ (p[1] = q[1] /\ p[2] < q[2])

\* the indices of `keys` by key descending, equal keys in input order: the
\* order a stable sort gives
StableDescending(keys) ==
    LET n == Len(keys)
        placed == {<<Cardinality({j \in 1..n :
                        \/ LimbLess(keys[i], keys[j])
                        \/ keys[j] = keys[i] /\ j < i}) + 1, i>> : i \in 1..n}
    IN  [r \in 1..n |-> (CHOOSE p \in placed : p[1] = r)[2]]

\* df.sort_values(key, ascending=False): pandas' default kind is quicksort,
\* which is not stable, so rows with equal keys may come out in any order.
\* The result is the set of index sequences into `keys` that the sort may
\* give: the stable order with the rows of equal keys permuted.
SortValuesDescendingBug(keys) ==
    {[i \in 1..Len(keys) |-> i]}
SortValuesDescending(keys) ==
    LET n == Len(keys)
        stable == StableDescending(keys)
        tied == {i \in 1..n : \E j \in 1..n : j # i /\ keys[j] = keys[i]}
        swaps == {q \in [tied -> tied] :
                     /\ \A i, j \in tied : q[i] = q[j] => i = j
                     /\ \A i \in tied : keys[q[i]] = keys[i]}
    IN  {[r \in 1..n |-> IF stable[r] \in tied THEN q[stable[r]] ELSE stable[r]] :
            q \in swaps}

\* load_and_calculate_data, lines 104-152: the tables it may return
LoadAndCalculateData(csv) ==
    LET rows == [i \in 1..Len(csv) |-> NationRow(csv[i])]
        keys == [i \in 1..Len(rows) |-> <<0, rows[i].total4>>]
    IN  {[i \in 1..Len(rows) |-> rows[order[i]]] : order \in SortValuesDescending(keys)}

-----------------------------------------------------------------------------
(* Club stage: calculate_club_coefficients *)

\* country codes in ascending order; "ZZZ" stands for a code that the
\* country table never holds.  "" is an empty country_code cell.
CountryOrder == <<"ARM", "AZE", "ZZZ">>
CountryRank(code) == CHOOSE i \in 1..Len(CountryOrder) : CountryOrder[i] = code
NoCode == ""

\* A team_code is modelled by its rank among the team codes in ascending
\* order (1, 2, ..); an empty team_code cell is NaN.

\* league_games and group_games of the model
Games == {0, 1, 2}

\* denominators of the fixed-point values: a quotient points / games is an
\* integer over GamesScale, tier ** -0.95 is kept to two decimals over
\* PowScale, the multiplier is in thousandths
GamesScale == CHOOSE m \in 1..8 :
    /\ \A g \in Games \ {0} : m % g = 0
    /\ \A k \in 1..(m - 1) : \E g \in Games \ {0} : k % g # 0
PowScale == 10 * 10
MultScale == 10 * 100
PartScale == GamesScale * PowScale * MultScale
RowScale == PartScale * 2
\* a mean of 1..5 values is an integer over MeanScale
MeanScale == 3 * 4 * 5
AvgScale == RowScale * MeanScale

\* league_tier ** -0.95 (value * PowScale), for league_tier >= 1
Pow95(league_tier) == <<100, 52, 35, 27, 22>>[league_tier]

\* multiplier = 1 if group == 1 else 0.913   (value * MultScale)
MultiplierBug(group) == IF group = 1 THEN 913 ELSE 1000
Multiplier(group) == IF group = 1 THEN 1000 ELSE 913

\* (points / games) * (league_tier ** -0.95) * multiplier   (value * PartScale);
\* NaN when an operand is NaN
PartBug(points, games, league_tier, multiplier) ==
    IF NaN \in {points, games, league_tier} THEN NaN
    ELSE points * (GamesScale \div games) * PowScale * multiplier
Part(points, games, league_tier, multiplier) ==
    IF NaN \in {points, games, league_tier} THEN NaN
    ELSE points * (GamesScale \div games) * Pow95(league_tier) * multiplier

\* a + b in floating point: NaN when an operand is NaN
NaNPlus(a, b) == IF NaN \in {a, b} THEN NaN ELSE a + b

\* pd.notna(group) and pd.notna(group_games) and pd.notna(group_points)
HasGroupBug(row) == row.group # NaN
HasGroup(row) ==
    row.group # NaN /\ row.group_games # NaN /\ row.group_points # NaN

\* a value over PartScale as a value over RowScale; x / 2 over RowScale
ToRowScale(x) == IF x = NaN THEN NaN ELSE 2 * x
Halved(x) == IF x = NaN THEN NaN ELSE x \div 2

\* calculate_row_coefficient(row), lines 172-205   (value * RowScale)
CalculateRowCoefficientBug(row) ==
    IF ~HasGroup(row)
    THEN IF row.league_games # 0 /\ row.league_tier # 0
         THEN ToRowScale(Part(row.league_points, row.league_games, row.league_tier,
                              MultScale))
         ELSE NaN
    ELSE IF row.group = 1 \/ row.group = 2
         THEN LET league_part ==
                      IF row.league_games # 0 /\ row.league_tier # 0
                      THEN ToRowScale(Part(row.league_points, row.league_games,
                                           row.league_tier, MultScale))
                      ELSE 0
                  group_part ==
                      IF row.group_games # 0 /\ row.league_tier # 0
                      THEN ToRowScale(Part(row.group_points, row.group_games,
                                           row.league_tier, Multiplier(row.group)))
                      ELSE 0
              IN  Halved(NaNPlus(league_part, group_part))
         ELSE 0
CalculateRowCoefficient(row) ==
    IF ~HasGroup(row)
    THEN IF row.league_games # 0 /\ row.league_tier # 0
         THEN ToRowScale(Part(row.league_points, row.league_games, row.league_tier,
                              MultScale))
         ELSE 0
    ELSE IF row.group = 1 \/ row.group = 2
         THEN LET league_part ==
                      IF row.league_games # 0 /\ row.league_tier # 0
                      THEN ToRowScale(Part(row.league_points, row.league_games,
                                           row.league_tier, MultScale))
                      ELSE 0
                  group_part ==
                      IF row.group_games # 0 /\ row.league_tier # 0
                      THEN ToRowScale(Part(row.group_points, row.group_games,
                                           row.league_tier, Multiplier(row.group)))
                      ELSE 0
              IN  Halved(NaNPlus(league_part, group_part))
         ELSE 0

\* club_df['team'].astype(str).str.strip(), line 211
StrStrip(team) ==
    CASE team = "" -> "nan"
      [] team = " Ararat " -> "Ararat"
      [] OTHER -> team

\* lines 158-211: one row of club_df
ClubRow(raw) ==
    LET row == [country_code |-> raw.country_code,
                team_code |-> raw.team_code,
                year |-> ToNumeric(raw.year),
                league_tier |-> ToNumeric(raw.league_tier),
                league_games |-> ToNumeric(raw.league_games),
                league_points |-> ToNumeric(raw.league_points),
                group |-> ToNumeric(raw.group),
                group_games |-> ToNumeric(raw.group_games),
                group_points |-> ToNumeric(raw.group_points),
                lat |-> ToNumeric(raw.lat),
                lon |-> ToNumeric(raw.lon)]
    IN  row @@ [team |-> StrStrip(raw.team),
                row_coefficient |-> CalculateRowCoefficient(row)]

\* the keys of club_df.groupby(['country_code', 'team_code']): rows with an
\* empty key cell belong to no group
GroupKeys(df) ==
    {<<df[i].country_code, df[i].team_code>> :
        i \in {j \in 1..Len(df) : df[j].country_code # NoCode /\ df[j].team_code # NaN}}

KeyBefore(a, b) ==
    \/ CountryRank(a[1]) < CountryRank(b[1])
    \/ a[1] = b[1] /\ a[2] < b[2]

\* groupby iterates over its keys in ascending order
Ascending(keys) ==
    LET placed == {<<Cardinality({b \in keys : KeyBefore(b, a)}) + 1, a>> : a \in keys}
    IN  [r \in 1..Cardinality(keys) |-> (CHOOSE p \in placed : p[1] = r)[2]]

\* the rows of one group, as indices into club_df in input order
RECURSIVE SetToSeq(_)
SetToSeq(S) ==
    IF S = {} THEN <<>>
    ELSE LET least == CHOOSE i \in S : \A j \in S : i <= j
         IN  <<least>> \o SetToSeq(S \ {least})
GroupRows(df, key) ==
    SetToSeq({i \in 1..Len(df) : <<df[i].country_code, df[i].team_code>> = key})

RECURSIVE LargestFirst(_, _)
\* the indices S by year descending, equal years in input order
LargestFirst(df, S) ==
    IF S = {} THEN <<>>
    ELSE LET best == CHOOSE i \in S : \A j \in S \ {i} :
                         \/ df[i].year > df[j].year
                         \/ df[i].year = df[j].year /\ i < j
         IN  <<best>> \o LargestFirst(df, S \ {best})

\* group.nlargest(5, 'year'): the rows with the largest years first (keep =
\* 'first'), then the rows without a year in input order, cut after n rows
TopN == 5
NLargestBug(df, rows) ==
    SubSeq(rows, 1, IF Len(rows) < TopN THEN Len(rows) ELSE TopN)
NLargest(df, rows) ==
    LET all == {rows[k] : k \in 1..Len(rows)}
        dropped == {i \in all : df[i].year # NaN}
        ordered == LargestFirst(df, dropped) \o SetToSeq(all \ dropped)
    IN  SubSeq(ordered, 1, IF Len(ordered) < TopN THEN Len(ordered) ELSE TopN)

\* top_5['row_coefficient'].fillna(0).mean()   (value * AvgScale)
MeanBug(df, top_5) ==
    SumSeq([k \in 1..Len(top_5) |-> FillNa0(df[top_5[k]].row_coefficient)])
        * (MeanScale \div TopN)
Mean(df, top_5) ==
    SumSeq([k \in 1..Len(top_5) |-> FillNa0(df[top_5[k]].row_coefficient)])
        * (MeanScale \div Len(top_5))

\* league_df[league_df['country_code'] == country_code]['total4'].values,
\* then its first entry, or 0 when there is none   (lines 227-228)
NationCoefBug(league, country_code) ==
    LET found == SelectSeq(league, LAMBDA r : r.country_code = country_code)
    IN  IF Len(found) > 0 THEN found[1].total4 ELSE 1
NationCoef(league, country_code) ==
    LET found == SelectSeq(league, LAMBDA r : r.country_code = country_code)
    IN  IF Len(found) > 0 THEN found[1].total4 ELSE 0

\* series.dropna().iloc[0] if there is one, else None (NaN in the column)
FirstNotNa(values) ==
    LET kept == SelectSeq(values, LAMBDA v : v # NaN)
    IN  IF Len(kept) > 0 THEN kept[1] ELSE NaN

\* lines 218-249: the entry of club_results for one group
ClubResult(league, df, key) ==
    LET group == GroupRows(df, key)
        top_5 == NLargest(df, group)
        avg_coefficient == Mean(df, top_5)
        nation_coef == NationCoef(league, key[1])
    IN  [country_code |-> key[1],
         team |-> df[group[1]].team,
         team_code |-> key[2],
         point_avg |-> Times(avg_coefficient, nation_coef),
         avg_coefficient |-> avg_coefficient,
         nation_coef |-> nation_coef,
         lat |-> FirstNotNa([k \in 1..Len(group) |-> df[group[k]].lat]),
         lon |-> FirstNotNa([k \in 1..Len(group) |-> df[group[k]].lon])]

\* lines 214-249: club_results, one entry per group in groupby's order
ClubResults(league, df) ==
    LET keys == Ascending(GroupKeys(df))
    IN  [g \in 1..Len(keys) |-> ClubResult(league, df, keys[g])]

\* lines 251-255: the ranked tables sort_values may give, each with
\* overall_position = range(1, len + 1)
Ranked(club_results) ==
    LET keys == [i \in 1..Len(club_results) |-> club_results[i].point_avg]
    IN  {[i \in 1..Len(club_results) |->
             club_results[order[i]] @@ [overall_position |-> i]] :
         order \in SortValuesDescending(keys)}

\* pd.DataFrame([]) has no column 'point_avg': sort_values raises KeyError
\* when club_results is empty   (lines 251-252)
SortRaises(club_results) == Len(club_results) = 0

-----------------------------------------------------------------------------
(* League system (tab6) and country rankings (tab7) *)

\* df.iloc[start:stop]: rows start..stop-1 (0-based) that exist
ILoc(df, start, stop) ==
    SubSeq(df, start + 1, IF stop < Len(df) THEN stop ELSE Len(df))

\* the 0-based bounds of the four slices   (lines 588-591)
PremierLeagueStop == 20
ChampionshipStop == 44
LeagueOneStop == 68
LeagueTwoStop == 92

\* seq[-3:], seq[0:2], seq[2:6] of Python, as sets of 1-based indices of 1..n
Last3(n) == {k \in 1..n : k > n - 3}
Slice(n, start, stop) == {k \in 1..n : start < k /\ k <= stop}

\* lines 616-638: the Status column of one league table; later assignments
\* overwrite earlier ones
Status(tier, league_df_tier) ==
    LET n == Len(league_df_tier)
    IN  [k \in 1..n |->
            IF tier = 1
            THEN IF k \in Last3(n) THEN "Relegation"
                 ELSE IF k = 1 /\ league_df_tier[1].overall_position - 1 = 0
                      THEN "Champion" ELSE ""
            ELSE IF k \in Last3(n) THEN "Relegation"
                 ELSE IF k \in Slice(n, 2, 6) THEN "Playoffs"
                 ELSE IF k \in Slice(n, 0, 2) THEN "Promotion" ELSE ""]

\* lines 604-638: one league table with league_pos and Status
LeagueTable(tier, league_df_tier) ==
    LET status == Status(tier, league_df_tier)
    IN  [k \in 1..Len(league_df_tier) |->
            league_df_tier[k] @@ [league_pos |-> k, Status |-> status[k]]]

\* lines 585-602: tiers_data
TiersData(all_clubs) ==
    <<LeagueTable(1, ILoc(all_clubs, 0, PremierLeagueStop)),
      LeagueTable(2, ILoc(all_clubs, PremierLeagueStop, ChampionshipStop)),
      LeagueTable(3, ILoc(all_clubs, ChampionshipStop, LeagueOneStop)),
      LeagueTable(4, ILoc(all_clubs, LeagueOneStop, LeagueTwoStop))>>

\* get_league_tier(position), lines 787-797
GetLeagueTierBug(position) ==
    IF position < 20 THEN "Premier League"
    ELSE IF position <= 44 THEN "Championship"
    ELSE IF position <= 68 THEN "League One"
    ELSE IF position <= 92 THEN "League Two"
    ELSE "Below League Two"
GetLeagueTier(position) ==
    IF position <= 20 THEN "Premier League"
    ELSE IF position <= 44 THEN "Championship"
    ELSE IF position <= 68 THEN "League One"
    ELSE IF position <= 92 THEN "League Two"
    ELSE "Below League Two"

\* the names of the four league tables in tiers_data   (lines 597-602)
LeagueName == <<"Premier League", "Championship", "League One", "League Two">>

\* lines 750-799: the selected country's clubs with national_rank and League
DisplayCountry(results, selected_country) ==
    LET country_clubs == SelectSeq(results, LAMBDA r : r.country_code = selected_country)
    IN  [k \in 1..Len(country_clubs) |->
            [team_code |-> country_clubs[k].team_code,
             national_rank |-> k,
             overall_position |-> country_clubs[k].overall_position,
             League |-> GetLeagueTier(country_clubs[k].overall_position)]]

-----------------------------------------------------------------------------
(* Input tables *)

\* rating cells of the country table
Ratings == {10 * k : k \in 0..MaxRating}
RatingCells == {Missing, Text} \cup {Num(v) : v \in Ratings}

\* the n seasons of one rating source: the same cell in every season, or one
\* season with a rating and the others 0 or empty
SeasonCells(n) ==
    {[i \in 1..n |-> c] : c \in RatingCells}
    \cup {[i \in 1..n |-> IF i = k THEN Num(v) ELSE rest] :
             k \in 1..n, v \in Ratings \ {0}, rest \in {Num(0), Missing}}

CountryRows(code) ==
    {[country_code |-> code, uefa |-> u, afc |-> a, fifa |-> f] :
        u \in SeasonCells(NumUefaCols), a \in SeasonCells(NumAfcCols),
        f \in SeasonCells(NumFifaCols)}

\* a country row with the same rating in every season of every source
FlatCountryRow(code, v) ==
    [country_code |-> code,
     uefa |-> [i \in 1..NumUefaCols |-> Num(v)],
     afc |-> [i \in 1..NumAfcCols |-> Num(v)],
     fifa |-> [i \in 1..NumFifaCols |-> Num(v)]]

\* a country row with one rating per source, the same in every season
SourceRow(code, u, a, f) ==
    [country_code |-> code,
     uefa |-> [i \in 1..NumUefaCols |-> Num(u)],
     afc |-> [i \in 1..NumAfcCols |-> Num(a)],
     fifa |-> [i \in 1..NumFifaCols |-> Num(f)]]

\* the tables of two such country rows
SourceRowPairs ==
    {<<SourceRow("ARM", r[1], r[2], r[3]), SourceRow("AZE", s[1], s[2], s[3])>> :
        r \in Ratings \X Ratings \X Ratings, s \in Ratings \X Ratings \X Ratings}

\* a club row without group phase and without coordinates
LeagueOnlyRow(code, team_code, year, tier, games, points) ==
    [country_code |-> code, team_code |-> team_code, team |-> "Ararat",
     year |-> year, league_tier |-> tier, league_games |-> games,
     league_points |-> points, group |-> Missing, group_games |-> Missing,
     group_points |-> Missing, lat |-> Missing, lon |-> Missing]

RECURSIVE Tables(_, _)
\* the tables of at most n rows drawn from `rows`
Tables(rows, n) ==
    IF n = 0 THEN {<<>>}
    ELSE LET shorter == Tables(rows, n - 1)
         IN  shorter \cup {Append(t, r) : t \in {u \in shorter : Len(u) = n - 1}, r \in rows}

\* the tables of the sessions in which the script runs more than once
SessionLeagueTables ==
    {<<FlatCountryRow("ARM", 10), FlatCountryRow("AZE", 10)>>,
     <<FlatCountryRow("ARM", 10)>>}
SessionClubRows ==
    {LeagueOnlyRow("ARM", 1, Num(2024), Num(1), Num(2), Num(4)),
     LeagueOnlyRow("AZE", 1, Num(2024), Num(1), Num(2), Num(2))}
SessionClubTables == Tables(SessionClubRows, Cardinality(SessionClubRows))

\* the first run of the script in a fresh server process: nothing computed,
\* nothing cached
InitComputed ==
    /\ pc = "start"
    /\ league_df = <<>>
    /\ club_df = <<>>
    /\ club_results_df = <<>>
    /\ tiers_data = <<>>
    /\ display_country = <<>>
    /\ league_cache = <<>>
    /\ club_cache = <<>>
    /\ changed = {}

\* Session specification: the script runs up to MaxReruns more times, the two
\* files changing in between.  Every other specification holds these
\* sessions too, next to its own tables, on which the script runs once.
InitSession ==
    /\ InitComputed
    /\ reruns_left = MaxReruns
    /\ league_csv \in SessionLeagueTables
    /\ club_csv \in SessionClubTables

\* Nation specification: any one-row (or empty) country table or a table of
\* two rows, a fixed club table
InitNation ==
    \/ InitSession
    \/ /\ InitComputed
       /\ reruns_left = 0
       /\ league_csv \in {<<>>} \cup {<<r>> : r \in CountryRows("ARM")} \cup SourceRowPairs
       /\ club_csv \in {<<>>, <<LeagueOnlyRow("ARM", 1, Num(2024), Num(1), Num(2), Num(4))>>}

\* Record specification: a club table of one record with any cells
TierCells == {Missing, Text} \cup {Num(v) : v \in 0..MaxTier}
GamesCells == {Missing} \cup {Num(v) : v \in Games}
PointsCells == {Missing} \cup {Num(v) : v \in 0..MaxPoints}
GroupCells == {Missing} \cup {Num(v) : v \in 0..3}

InitRecord ==
    \/ InitSession
    \/ /\ InitComputed
       /\ reruns_left = 0
       /\ league_csv = <<FlatCountryRow("ARM", 10)>>
       /\ club_csv \in {<<>>} \cup
            {<<[LeagueOnlyRow("ARM", 1, Num(2024), t, g, p)
                  EXCEPT !.group = gr, !.group_games = gg, !.group_points = gp]>> :
               t \in TierCells, g \in GamesCells, p \in PointsCells,
               gr \in GroupCells, gg \in GamesCells, gp \in PointsCells}

\* Club specification: the season records of one club, each one of a few
\* kinds of record, and a country table that holds the club's country or not
SeasonRecords(code, team_code) ==
    {LeagueOnlyRow(code, team_code, Num(2021), Num(1), Num(2), Num(4)),
     [LeagueOnlyRow(code, team_code, Num(2020), Num(2), Num(2), Num(3))
        EXCEPT !.group = Num(2), !.group_games = Num(2), !.group_points = Num(3)],
     LeagueOnlyRow(code, team_code, Num(2020), Num(1), Missing, Num(3)),
     LeagueOnlyRow(code, team_code, Missing, Num(1), Num(1), Num(1))}

\* records of one club with or without a latitude and a longitude
CoordCells == {Missing, Num(40), Num(44)}
CoordinateRecords(code, team_code) ==
    {[LeagueOnlyRow(code, team_code, Num(2021), Num(1), Num(2), Num(4))
        EXCEPT !.lat = la, !.lon = lo] : la \in CoordCells, lo \in CoordCells}

InitClub ==
    \/ InitSession
    \/ /\ InitComputed
       /\ reruns_left = 0
       /\ league_csv \in {<<FlatCountryRow("ARM", 10)>>,
                         <<FlatCountryRow("AZE", 10), FlatCountryRow("ARM", 0)>>,
                         <<FlatCountryRow("AZE", 10)>>}
       /\ club_csv \in Tables(SeasonRecords("ARM", 1), MaxSeasons)
                        \cup Tables(CoordinateRecords("ARM", 1), MaxCoordRows)

\* Ranking specification: club tables of a few rows over several clubs, some
\* with an empty key cell or a country that the country table does not hold
RankingRows ==
    {LeagueOnlyRow(k[1], k[2], Num(2024), Num(1), Num(2), Num(p)) :
        k \in {<<"ARM", 1>>, <<"ARM", 2>>, <<"AZE", 1>>, <<"ZZZ", 1>>, <<NoCode, 1>>,
               <<"ARM", NaN>>},
        p \in {0, 4}}

Init ==
    \/ InitSession
    \/ /\ InitComputed
       /\ reruns_left = 0
       /\ league_csv \in {<<>>,
                         <<FlatCountryRow("ARM", 10), FlatCountryRow("AZE", 10)>>,
                         <<FlatCountryRow("ARM", 0), FlatCountryRow("AZE", 10)>>}
       /\ club_csv \in Tables(RankingRows, MaxClubRows)

\* League specification: a club table of n clubs with one record each and
\* pairwise different points
LeaguePoints(i) == (i * 37) % 97
LeagueClubs(n) ==
    [i \in 1..n |-> LeagueOnlyRow("ARM", i, Num(2024), Num(1), Num(2), Num(LeaguePoints(i)))]

InitLeague ==
    \/ InitSession
    \/ /\ InitComputed
       /\ reruns_left = 0
       /\ league_csv = <<FlatCountryRow("ARM", 10)>>
       /\ club_csv \in {LeagueClubs(n) : n \in 0..MaxLeagueClubs}

-----------------------------------------------------------------------------
(* The cache of st.cache_data(ttl=0)   (lines 103, 154) *)

\* ttl=0: the seconds an entry stays valid
Ttl == 0

\* A function's cache after a call has stored its result: one entry, the
\* hashed arguments and the returned value (storing an entry drops the
\* expired ones, which with this ttl are all earlier entries).
CacheEntry(key, value) == <<[key |-> key, value |-> value]>>

\* A lookup `elapsed` seconds after the entry was stored returns it when the
\* arguments are the same and the entry has not expired (clock < stored + ttl).
CacheHitBug(cache, key, elapsed) == Len(cache) > 0 /\ cache[1].key = key
CacheHit(cache, key, elapsed) ==
    Len(cache) > 0 /\ cache[1].key = key /\ elapsed < Ttl

\* the outcomes (hit or not) of a lookup, whatever time has passed
Lookups(cache, key) == {CacheHit(cache, key, elapsed) : elapsed \in 0..MaxElapsed}

\* load_and_calculate_data takes no arguments
NoArguments == <<>>

-----------------------------------------------------------------------------
(* The script: lines 278-281, tab6, tab7 and the except clause; its re-runs *)

\* line 280: league_df = load_and_calculate_data(), from the cache or computed
\* from LeagueRanking.csv and stored
LoadData ==
    /\ pc = "start"
    /\ \E hit \in Lookups(league_cache, NoArguments) :
           IF hit
           THEN /\ league_df' = league_cache[1].value
                /\ UNCHANGED league_cache
           ELSE \E df \in LoadAndCalculateData(league_csv) :
                    /\ league_df' = df
                    /\ league_cache' = CacheEntry(NoArguments, df)
    /\ pc' = "loaded"
    /\ UNCHANGED <<league_csv, club_csv, club_df, club_results_df, tiers_data,
                   display_country, club_cache, changed, reruns_left>>

\* line 281: club_results_df, club_df = calculate_club_coefficients(league_df),
\* returning normally: from the cache, or computed from ClubCoef.csv and stored
CalculateClubs ==
    /\ pc = "loaded"
    /\ \E hit \in Lookups(club_cache, league_df) :
           IF hit
           THEN /\ club_results_df' = club_cache[1].value[1]
                /\ club_df' = club_cache[1].value[2]
                /\ UNCHANGED club_cache
           ELSE LET df == [i \in 1..Len(club_csv) |-> ClubRow(club_csv[i])]
                    club_results == ClubResults(league_df, df)
                IN  /\ ~SortRaises(club_results)
                    /\ \E ranked \in Ranked(club_results) :
                           /\ club_results_df' = ranked
                           /\ club_df' = df
                           /\ club_cache' = CacheEntry(league_df, <<ranked, df>>)
    /\ pc' = "ranked"
    /\ UNCHANGED <<league_csv, club_csv, league_df, tiers_data, display_country,
                   league_cache, changed, reruns_left>>

\* line 281 raising: control passes to the except clause (lines 1015-1019),
\* which reports the error; no club table is assigned, nothing is stored
CalculateClubsRaises ==
    /\ pc = "loaded"
    /\ FALSE \in Lookups(club_cache, league_df)
    /\ LET df == [i \in 1..Len(club_csv) |-> ClubRow(club_csv[i])]
       IN  SortRaises(ClubResults(league_df, df))
    /\ pc' = "error"
    /\ UNCHANGED <<league_csv, club_csv, league_df, club_df, club_results_df,
                   tiers_data, display_country, league_cache, club_cache,
                   changed, reruns_left>>

\* tab6, lines 572-638
LeagueSystemTab ==
    /\ pc = "ranked"
    /\ tiers_data' = TiersData(club_results_df)
    /\ pc' = "tab6"
    /\ UNCHANGED <<league_csv, club_csv, league_df, club_df, club_results_df,
                   display_country, league_cache, club_cache, changed,
                   reruns_left>>

\* tab7, lines 722-799: the user selects one of the countries with clubs
CountryRankingsTab ==
    /\ pc = "tab6"
    /\ \E selected_country \in
           {club_results_df[i].country_code : i \in 1..Len(club_results_df)} :
           display_country' = DisplayCountry(club_results_df, selected_country)
    /\ pc' = "done"
    /\ UNCHANGED <<league_csv, club_csv, league_df, club_df, club_results_df,
                   tiers_data, league_cache, club_cache, changed, reruns_left>>

\* The script has run to its end (or to the end of the except clause) and
\* the page waits for the next run: the script's variables are gone, the
\* caches and the files stay.
ScriptEnds ==
    /\ pc \in {"done", "error"}
    /\ reruns_left > 0
    /\ reruns_left' = reruns_left - 1
    /\ pc' = "idle"
    /\ league_df' = <<>>
    /\ club_df' = <<>>
    /\ club_results_df' = <<>>
    /\ tiers_data' = <<>>
    /\ display_country' = <<>>
    /\ changed' = {}
    /\ UNCHANGED <<league_csv, club_csv, league_cache, club_cache>>

\* ClubCoef.csv (read at line 158) is replaced by another table between two
\* runs.  A change during a run is read by that run or by the next one, like
\* a change before it or after it.
EditClubCsv ==
    /\ pc = "idle"
    /\ "club" \notin changed
    /\ \E table \in SessionClubTables \ {club_csv} : club_csv' = table
    /\ changed' = changed \cup {"club"}
    /\ UNCHANGED <<pc, league_csv, league_df, club_df, club_results_df,
                   tiers_data, display_country, league_cache, club_cache,
                   reruns_left>>

\* LeagueRanking.csv (read at line 107) is replaced by another table between
\* two runs
EditLeagueCsv ==
    /\ pc = "idle"
    /\ "league" \notin changed
    /\ \E table \in SessionLeagueTables \ {league_csv} : league_csv' = table
    /\ changed' = changed \cup {"league"}
    /\ UNCHANGED <<pc, club_csv, league_df, club_df, club_results_df,
                   tiers_data, display_country, league_cache, club_cache,
                   reruns_left>>

\* A user interaction: the script runs again from its first line
Rerun ==
    /\ pc = "idle"
    /\ pc' = "start"
    /\ UNCHANGED <<league_csv, club_csv, league_df, club_df, club_results_df,
                   tiers_data, display_country, league_cache, club_cache,
                   changed, reruns_left>>

Next ==
    \/ LoadData
    \/ CalculateClubs
    \/ CalculateClubsRaises
    \/ LeagueSystemTab
    \/ CountryRankingsTab
    \/ ScriptEnds
    \/ EditClubCsv
    \/ EditLeagueCsv
    \/ Rerun

-----------------------------------------------------------------------------
(* Specifications *)

SpecNation == InitNation /\ [][Next]_vars
SpecRecord == InitRecord /\ [][Next]_vars
SpecClub == InitClub /\ [][Next]_vars
Spec == Init /\ [][Next]_vars
SpecLeague == InitLeague /\ [][Next]_vars
SpecSession == InitSession /\ [][Next]_vars

-----------------------------------------------------------------------------
(* Properties *)

Loaded == pc \notin {"start", "idle"}
ClubStageDone == pc \in {"ranked", "tab6", "done"}

\* a raw rating cell read as a number, an empty or non-numeric one as 0
CellOrZero(cell) == IF cell.kind = "num" THEN cell.val ELSE 0

\* 0.6 v1 + 0.7 v2 + 0.8 v3 + 0.9 v4 + 1.0 v5 over 5, times SubScale, for the
\* seasons first..first+4 of `values`
WeightedFive(values, first) ==
    6 * values[first] + 7 * values[first + 1] + 8 * values[first + 2]
        + 9 * values[first + 3] + 10 * values[first + 4]

\* C1: for every country row and each of the three sources (7, 6 and 8
\* seasons) the sub-score is (v1*0.6 + v2*0.7 + v3*0.8 + v4*0.9 + v5*1.0) / 5
\* over the 5 most recent seasons, oldest to newest; older seasons do not
\* enter it.
C1_SubScoreIsWeightedLastFive ==
    Loaded =>
        \A i \in 1..Len(league_df) :
            LET r == league_df[i]
            IN  /\ Len(r.uefa) = 7 /\ Len(r.afc) = 6 /\ Len(r.fifa) = 8
                /\ r.total = WeightedFive(r.uefa, 3)
                /\ r.total2 = WeightedFive(r.afc, 2)
                /\ r.total3 = WeightedFive(r.fifa, 4)

\* five (here seven) seasons of 10 give the sub-score 8.0
C1_Witness ==
    /\ Loaded
    /\ \E i \in 1..Len(league_df) :
           /\ \A k \in 1..7 : league_df[i].uefa[k] = 10
           /\ league_df[i].total = 8 * SubScale

\* C2: for every country row the final score is
\* (uefaScore*0.3 + afcScore*0.1 + fifaScore*0.6) / 100.
C2_FinalScoreIsLinearCombination ==
    Loaded =>
        \A i \in 1..Len(league_df) :
            LET r == league_df[i]
            IN  r.total4 * SubScale * 10 * 100 =
                    (3 * r.total + 1 * r.total2 + 6 * r.total3) * FinalScale

\* uefaScore 8.0 with afcScore 0 and fifaScore 0 gives 0.024
C2_Witness ==
    /\ Loaded
    /\ \E i \in 1..Len(league_df) :
           /\ league_df[i].total = 8 * SubScale
           /\ league_df[i].total2 = 0
           /\ league_df[i].total3 = 0
           /\ league_df[i].total4 * 1000 = 24 * FinalScale

\* C9: every missing or non-numeric rating cell counts as 0 in the weighted
\* sum while the divisor stays 5; a country whose cells are all missing is in
\* the nation output with all three sub-scores and the final score 0.
C9_MissingRatingCountsAsZero ==
    Loaded =>
        /\ Len(league_df) = Len(league_csv)
        /\ \A i \in 1..Len(league_csv) :
               \E j \in 1..Len(league_df) :
                   LET raw == league_csv[i]
                       r == league_df[j]
                   IN  /\ r.country_code = raw.country_code
                       /\ r.total = WeightedFive([k \in 1..7 |-> CellOrZero(raw.uefa[k])], 3)
                       /\ r.total2 = WeightedFive([k \in 1..6 |-> CellOrZero(raw.afc[k])], 2)
                       /\ r.total3 = WeightedFive([k \in 1..8 |-> CellOrZero(raw.fifa[k])], 4)
                       /\ (/\ \A k \in 1..7 : raw.uefa[k].kind # "num"
                           /\ \A k \in 1..6 : raw.afc[k].kind # "num"
                           /\ \A k \in 1..8 : raw.fifa[k].kind # "num")
                          => r.total = 0 /\ r.total2 = 0 /\ r.total3 = 0 /\ r.total4 = 0

\* a country with a rating in the newest season only, every other cell of
\* the source empty: the sub-score is 10 * 1.0 / 5 = 2.0; its other two
\* sources hold no number at all
C9_Witness ==
    /\ Loaded
    /\ \E i \in 1..Len(league_csv) :
           /\ \A k \in 1..6 : league_csv[i].uefa[k] = Missing
           /\ league_csv[i].uefa[7] = Num(10)
           /\ \A k \in 1..6 : league_csv[i].afc[k] = Text
           /\ \A k \in 1..8 : league_csv[i].fifa[k] = Missing
    /\ \E j \in 1..Len(league_df) :
           /\ league_df[j].total = 2 * SubScale
           /\ league_df[j].total2 = 0
           /\ league_df[j].total3 = 0

\* the records of club_df whose three league cells are numbers
LeagueCellsNumeric(row) ==
    row.league_tier # NaN /\ row.league_games # NaN /\ row.league_points # NaN

\* (points / games) * tier^-0.95 * multiplier, times RowScale, for numbers
\* with games # 0 and tier # 0
PointsPerGameByTier(points, games, tier, multiplier) ==
    2 * ((points * GamesScale) \div games) * Pow95(tier) * multiplier

\* C3: a record without group-phase data has rowCoefficient
\* (leaguePoints / leagueGames) * leagueTier^-0.95 when leagueGames # 0 and
\* leagueTier # 0, and 0 otherwise.
C3_RowCoefficientWithoutGroup ==
    ClubStageDone =>
        \A i \in 1..Len(club_df) :
            LET row == club_df[i]
            IN  (/\ row.group = NaN /\ row.group_games = NaN /\ row.group_points = NaN
                 /\ LeagueCellsNumeric(row))
                => row.row_coefficient =
                       IF row.league_games # 0 /\ row.league_tier # 0
                       THEN PointsPerGameByTier(row.league_points, row.league_games,
                                                row.league_tier, MultScale)
                       ELSE 0

\* tier 2, 2 games, 3 points without group phase: 1.5 * 0.52 = 0.78
C3_Witness ==
    /\ ClubStageDone
    /\ \E i \in 1..Len(club_df) :
           /\ club_df[i].group = NaN /\ club_df[i].group_games = NaN
           /\ club_df[i].group_points = NaN
           /\ club_df[i].league_tier = 2
           /\ club_df[i].league_games = 2
           /\ club_df[i].league_points = 3
           /\ club_df[i].row_coefficient * 100 = 78 * RowScale

\* C4: with all three group fields present, rowCoefficient is
\* (leaguePart + groupPart) / 2 if group is 1 or 2, leaguePart being the
\* no-group formula (0 if leagueGames or leagueTier is 0) and groupPart
\* (groupPoints / groupGames) * leagueTier^-0.95 * m, m = 1.0 for group 1 and
\* 0.913 for group 2 (0 if groupGames or leagueTier is 0); for any other
\* group it is 0.
C4_RowCoefficientWithGroup ==
    ClubStageDone =>
        \A i \in 1..Len(club_df) :
            LET row == club_df[i]
                leaguePart ==
                    IF row.league_games # 0 /\ row.league_tier # 0
                    THEN PointsPerGameByTier(row.league_points, row.league_games,
                                             row.league_tier, MultScale)
                    ELSE 0
                m == IF row.group = 1 THEN 1000 ELSE 913
                groupPart ==
                    IF row.group_games # 0 /\ row.league_tier # 0
                    THEN PointsPerGameByTier(row.group_points, row.group_games,
                                             row.league_tier, m)
                    ELSE 0
            IN  (/\ row.group # NaN /\ row.group_games # NaN /\ row.group_points # NaN
                 /\ LeagueCellsNumeric(row))
                => row.row_coefficient =
                       IF row.group \in {1, 2} THEN (leaguePart + groupPart) \div 2
                       ELSE 0

\* tier 2, 2 games, 3 points, group 2 with 2 games and 3 points:
\* (1.5 * 0.52 + 1.5 * 0.52 * 0.913) / 2 = 0.74607
C4_Witness ==
    /\ ClubStageDone
    /\ \E i \in 1..Len(club_df) :
           /\ club_df[i].league_tier = 2
           /\ club_df[i].league_games = 2
           /\ club_df[i].league_points = 3
           /\ club_df[i].group = 2
           /\ club_df[i].group_games = 2
           /\ club_df[i].group_points = 3
           /\ club_df[i].row_coefficient * 100 = 74607 * (RowScale \div 1000)

\* the records of club_df of the club (country code, team identifier)
RecordsOf(country_code, team_code) ==
    {i \in 1..Len(club_df) :
        club_df[i].country_code = country_code /\ club_df[i].team_code = team_code}

RECURSIVE SumOfCoefficients(_)
\* the sum of the rowCoefficients of the records S, a null one counted as 0
SumOfCoefficients(S) ==
    IF S = {} THEN 0
    ELSE LET i == CHOOSE x \in S : TRUE
             c == club_df[i].row_coefficient
         IN  (IF c = NaN THEN 0 ELSE c) + SumOfCoefficients(S \ {i})

\* S is a selection of the most recent records of R: all of them up to 5, and
\* no record left out has a later year than a selected one (a record without
\* a year counts as the oldest)
MostRecent(S, R) ==
    /\ S \subseteq R
    /\ Cardinality(S) = IF Cardinality(R) < 5 THEN Cardinality(R) ELSE 5
    /\ \A i \in S, j \in R \ S : club_df[i].year >= club_df[j].year

\* the final nation scores of the rows of league_df with this country code
FinalScores(country_code) ==
    {league_df[i].total4 :
        i \in {j \in 1..Len(league_df) : league_df[j].country_code = country_code}}

\* C5: for every club, pointAvg is the mean of the rowCoefficients of its
\* selected most recent records (a null coefficient counted as 0) times the
\* final nation score of the club's country; for a club with exactly 5
\* records it is the mean of the 5 rowCoefficients times the nation score.
C5_PointAvgIsMeanTimesNation ==
    ClubStageDone =>
        \A c \in 1..Len(club_results_df) :
            LET club == club_results_df[c]
                R == RecordsOf(club.country_code, club.team_code)
            IN  \A final \in FinalScores(club.country_code) :
                    /\ \E S \in SUBSET R :
                           /\ MostRecent(S, R)
                           /\ club.point_avg =
                                  Times((SumOfCoefficients(S) * MeanScale)
                                            \div Cardinality(S), final)
                    /\ Cardinality(R) = 5 =>
                           club.point_avg =
                               Times((SumOfCoefficients(R) * MeanScale) \div 5, final)

\* a club with exactly 5 records, one of them with a null coefficient, in a
\* country with a positive nation score
C5_Witness ==
    /\ ClubStageDone
    /\ Len(club_df) = 5
    /\ Len(club_results_df) = 1
    /\ \E i \in 1..5 : club_df[i].row_coefficient = NaN
    /\ \E i \in 1..5 : club_df[i].row_coefficient = 2 * RowScale
    /\ club_results_df[1].nation_coef > 0
    /\ club_results_df[1].point_avg # <<0, 0>>

\* the (country code, team identifier) pairs of the club table
ClubPairs ==
    {<<club_csv[i].country_code, club_csv[i].team_code>> :
        i \in {j \in 1..Len(club_csv) :
                  club_csv[j].country_code # NoCode /\ club_csv[j].team_code # NaN}}

\* C6: after the club stage the ranked club list has one entry per distinct
\* (country code, team identifier) pair, pointAvg never increases along it,
\* and the overallPosition of the i-th entry is i.
C6_RankingIsDescendingPermutation ==
    ClubStageDone =>
        /\ Len(club_results_df) = Cardinality(ClubPairs)
        /\ {<<club_results_df[i].country_code, club_results_df[i].team_code>> :
               i \in 1..Len(club_results_df)} = ClubPairs
        /\ \A i \in 1..Len(club_results_df) : club_results_df[i].overall_position = i
        /\ \A i \in 1..(Len(club_results_df) - 1) :
               ~LimbLess(club_results_df[i].point_avg, club_results_df[i + 1].point_avg)

\* three clubs, the one first in the table ranked last
C6_Witness ==
    /\ ClubStageDone
    /\ Len(club_results_df) = 3
    /\ club_results_df[3].country_code = club_csv[1].country_code
    /\ club_results_df[3].team_code = club_csv[1].team_code
    /\ LimbLess(club_results_df[3].point_avg, club_results_df[2].point_avg)

\* C8: a club whose country code has no row in the country season table gets
\* the nation coefficient 0, hence pointAvg 0, and is still in the ranked
\* club list with an overallPosition.
C8_UnknownCountryRankedWithZero ==
    ClubStageDone =>
        \A pair \in ClubPairs :
            (\A i \in 1..Len(league_csv) : league_csv[i].country_code # pair[1])
            => \E c \in 1..Len(club_results_df) :
                   /\ club_results_df[c].country_code = pair[1]
                   /\ club_results_df[c].team_code = pair[2]
                   /\ club_results_df[c].nation_coef = 0
                   /\ club_results_df[c].point_avg = <<0, 0>>
                   /\ club_results_df[c].overall_position = c

\* a club of an unknown country with a positive average coefficient, ranked
\* below a club of a known country
C8_Witness ==
    /\ ClubStageDone
    /\ Len(league_csv) > 0
    /\ \E c \in 2..Len(club_results_df) :
           /\ club_results_df[c].country_code = "ZZZ"
           /\ club_results_df[c].avg_coefficient > 0
           /\ club_results_df[c].point_avg = <<0, 0>>
           /\ club_results_df[1].point_avg # <<0, 0>>

\* C10: for every pair of input tables, degenerate ones included (an empty
\* club table, club rows whose keys are all missing), the computation
\* completes without raising and yields a nation table and a ranked club
\* table.
C10_NeverRaises == pc # "error"

\* C7: the tier depends only on the overall position p: Tier 1 iff
\* 1 <= p <= 20, Tier 2 iff 21 <= p <= 44, Tier 3 iff 45 <= p <= 68, Tier 4
\* iff 69 <= p <= 92, untiered iff p > 92; and the slices of the four league
\* tables put each club in the tier of its overallPosition.
TierOfPosition(p) ==
    CASE 1 <= p /\ p <= 20 -> "Premier League"
      [] 21 <= p /\ p <= 44 -> "Championship"
      [] 45 <= p /\ p <= 68 -> "League One"
      [] 69 <= p /\ p <= 92 -> "League Two"
      [] p > 92 -> "Below League Two"

C7_TierByPositionAgreesWithSlices ==
    /\ pc = "done" =>
           \A k \in 1..Len(display_country) :
               display_country[k].League = TierOfPosition(display_country[k].overall_position)
    /\ pc \in {"tab6", "done"} =>
           /\ \A t \in 1..4 : \A k \in 1..Len(tiers_data[t]) :
                  /\ GetLeagueTier(tiers_data[t][k].overall_position) = LeagueName[t]
                  /\ TierOfPosition(tiers_data[t][k].overall_position) = LeagueName[t]
           /\ \A c \in 1..Len(club_results_df) :
                  (\E t \in 1..4 : \E k \in 1..Len(tiers_data[t]) :
                       tiers_data[t][k].team_code = club_results_df[c].team_code)
                  <=> club_results_df[c].overall_position <= 92

\* 93 clubs or more: positions 20, 21, 92 and 93 are all taken
C7_Witness ==
    /\ pc = "done"
    /\ Len(club_results_df) >= 93
    /\ Len(display_country) >= 93
    /\ display_country[20].League = "Premier League"
    /\ display_country[21].League = "Championship"
    /\ display_country[92].League = "League Two"
    /\ display_country[93].League = "Below League Two"
    /\ Len(tiers_data[1]) = 20
    /\ Len(tiers_data[4]) = 24

\* the three group cells of a record are all absent / all numbers
NoGroupData(row) ==
    row.group = NaN /\ row.group_games = NaN /\ row.group_points = NaN
GroupCellsNumeric(row) ==
    row.group # NaN /\ row.group_games # NaN /\ row.group_points # NaN

\* C11: for every record whose league tier, games and points are non-negative
\* numbers the rowCoefficient is a number >= 0; with leagueGames, groupGames
\* or leagueTier 0 the result is the value with the affected part replaced by
\* 0, and the row computation does not raise (the only raise of the club stage
\* is that of the empty club list).
C11_RowCoefficientNonNegative ==
    /\ ClubStageDone =>
           \A i \in 1..Len(club_df) :
               LET row == club_df[i]
                   leaguePart ==
                       IF row.league_games # 0 /\ row.league_tier # 0
                       THEN PointsPerGameByTier(row.league_points, row.league_games,
                                                row.league_tier, MultScale)
                       ELSE 0
                   groupPart ==
                       IF row.group_games # 0 /\ row.league_tier # 0
                       THEN PointsPerGameByTier(row.group_points, row.group_games,
                                                row.league_tier,
                                                IF row.group = 1 THEN 1000 ELSE 913)
                       ELSE 0
               IN  LeagueCellsNumeric(row) =>
                       /\ row.row_coefficient >= 0
                       /\ (NoGroupData(row) /\ (row.league_games = 0 \/ row.league_tier = 0))
                              => row.row_coefficient = 0
                       /\ (GroupCellsNumeric(row) /\ row.group \in {1, 2}) =>
                              /\ row.league_tier = 0 => row.row_coefficient = 0
                              /\ row.league_games = 0 =>
                                     row.row_coefficient = groupPart \div 2
                              /\ row.group_games = 0 =>
                                     row.row_coefficient = leaguePart \div 2
    /\ pc = "error" => Len(club_csv) = 0

\* no league games, tier 2, group 2 with 2 games and 3 points: the league
\* part is 0 and the coefficient is half the group part, 1.5 * 0.52 * 0.913 / 2
C11_Witness ==
    /\ ClubStageDone
    /\ \E i \in 1..Len(club_df) :
           /\ club_df[i].league_games = 0
           /\ club_df[i].league_tier = 2
           /\ club_df[i].league_points = 3
           /\ club_df[i].group = 2
           /\ club_df[i].group_games = 2
           /\ club_df[i].group_points = 3
           /\ club_df[i].row_coefficient * 2 = PointsPerGameByTier(3, 2, 2, 913)
           /\ club_df[i].row_coefficient > 0

\* C12: the final nation score is strictly monotone in each sub-score: of two
\* country rows that differ in exactly one of uefaScore, afcScore, fifaScore,
\* the one with the larger value of it has the strictly larger final score.
C12_FinalScoreStrictlyMonotone ==
    Loaded =>
        \A i \in 1..Len(league_df) : \A j \in 1..Len(league_df) :
            LET r == league_df[i]
                s == league_df[j]
            IN  /\ (r.total > s.total /\ r.total2 = s.total2 /\ r.total3 = s.total3)
                       => r.total4 > s.total4
                /\ (r.total = s.total /\ r.total2 > s.total2 /\ r.total3 = s.total3)
                       => r.total4 > s.total4
                /\ (r.total = s.total /\ r.total2 = s.total2 /\ r.total3 > s.total3)
                       => r.total4 > s.total4

\* two countries with uefaScore 8.0 and fifaScore 8.0 each, one with afcScore
\* 8.0 and the other with afcScore 0: final scores 0.08 and 0.072
C12_Witness ==
    /\ Loaded
    /\ Len(league_df) = 2
    /\ league_df[1].total = 8 * SubScale /\ league_df[2].total = 8 * SubScale
    /\ league_df[1].total3 = 8 * SubScale /\ league_df[2].total3 = 8 * SubScale
    /\ league_df[1].total2 = 8 * SubScale /\ league_df[2].total2 = 0
    /\ league_df[1].total4 * 1000 = 80 * FinalScale
    /\ league_df[2].total4 * 1000 = 72 * FinalScale

\* record j is selected before record i: the later year first, records of
\* the same year in input order; a record without a year counts as the oldest
SelectedBefore(j, i) ==
    \/ club_df[j].year > club_df[i].year
    \/ club_df[j].year = club_df[i].year /\ j < i

\* the records of R with fewer than 5 records of R before them
FiveLatest(R) ==
    {i \in R : Cardinality({j \in R : SelectedBefore(j, i)}) < 5}

\* C13: for every club with more than 5 records exactly the 5 records with
\* the largest year enter its average, records that tie on the year at the
\* cut-off being taken in input order; pointAvg is determined by these 5
\* records and the nation score alone.
C13_FiveLatestContribute ==
    ClubStageDone =>
        \A c \in 1..Len(club_results_df) :
            LET club == club_results_df[c]
                R == RecordsOf(club.country_code, club.team_code)
                S == FiveLatest(R)
                mean == (SumOfCoefficients(S) * MeanScale) \div 5
            IN  Cardinality(R) > 5 =>
                    /\ Cardinality(S) = 5
                    /\ club.avg_coefficient = mean
                    /\ club.point_avg = Times(mean, club.nation_coef)

\* a club with 6 records in a country with a positive nation score; the last
\* selected record and the record left out are of the same year and have
\* different coefficients
C13_Witness ==
    /\ ClubStageDone
    /\ Len(club_df) = 6
    /\ Len(club_results_df) = 1
    /\ club_results_df[1].nation_coef > 0
    /\ LET S == FiveLatest(1..6)
       IN  \E i \in S : \E j \in (1..6) \ S :
               /\ club_df[i].year = club_df[j].year
               /\ club_df[i].year # NaN
               /\ club_df[i].row_coefficient > 0
               /\ club_df[j].row_coefficient = NaN

\* one or two, but not all three, of the group cells of a record are present
PartialGroupData(row) == ~NoGroupData(row) /\ ~GroupCellsNumeric(row)

\* C14 as claimed: a record in which one or two, but not all three, of group,
\* groupGames and groupPoints are present has rowCoefficient 0, whatever its
\* league fields are.
C14_PartialGroupScoresZero ==
    ClubStageDone =>
        \A i \in 1..Len(club_df) :
            PartialGroupData(club_df[i]) => club_df[i].row_coefficient = 0

\* C14 as amended: a record in which one or two, but not all three, of the
\* group fields are present is treated as a record without group phase: with
\* numeric league fields its rowCoefficient is
\* (leaguePoints / leagueGames) * leagueTier^-0.95 when leagueGames # 0 and
\* leagueTier # 0, and 0 otherwise.
C14_PartialGroupAsNoGroup ==
    ClubStageDone =>
        \A i \in 1..Len(club_df) :
            LET row == club_df[i]
            IN  (PartialGroupData(row) /\ LeagueCellsNumeric(row))
                => row.row_coefficient =
                       IF row.league_games # 0 /\ row.league_tier # 0
                       THEN PointsPerGameByTier(row.league_points, row.league_games,
                                                row.league_tier, MultScale)
                       ELSE 0

\* group 1 without group games and points; tier 1, 2 games, 4 points: 2.0
C14_Witness ==
    /\ ClubStageDone
    /\ \E i \in 1..Len(club_df) :
           /\ club_df[i].group = 1
           /\ club_df[i].group_games = NaN
           /\ club_df[i].group_points = NaN
           /\ club_df[i].league_tier = 1
           /\ club_df[i].league_games = 2
           /\ club_df[i].league_points = 4
           /\ club_df[i].row_coefficient = 2 * RowScale

\* a record of club_df with each missing league cell replaced by 0
LeagueCellsAsZero(row) ==
    [row EXCEPT !.league_tier = IF @ = NaN THEN 0 ELSE @,
                !.league_games = IF @ = NaN THEN 0 ELSE @,
                !.league_points = IF @ = NaN THEN 0 ELSE @]

\* C15: a missing or non-numeric leagueTier, leagueGames or leaguePoints cell
\* counts as 0: the record's contribution to its club's average (here the
\* average of a club with this one record) is the rowCoefficient computed
\* with that cell replaced by 0.
C15_MissingLeagueCellCountsAsZero ==
    (ClubStageDone /\ Len(club_df) = 1 /\ Len(club_results_df) = 1) =>
        (~LeagueCellsNumeric(club_df[1]) =>
            club_results_df[1].avg_coefficient =
                CalculateRowCoefficient(LeagueCellsAsZero(club_df[1])) * MeanScale)

\* the records of R that hold both a latitude and a longitude
WithCoordinates(R) == {i \in R : club_df[i].lat # NaN /\ club_df[i].lon # NaN}

\* C16: for every club the representative coordinates are those of the first
\* of its records, in input order, that holds both a latitude and a
\* longitude; a club without such a record has no coordinates.
C16_CoordinatesFromFirstPair ==
    ClubStageDone =>
        \A c \in 1..Len(club_results_df) :
            LET club == club_results_df[c]
                P == WithCoordinates(RecordsOf(club.country_code, club.team_code))
            IN  IF P = {}
                THEN club.lat = NaN /\ club.lon = NaN
                ELSE LET first == CHOOSE i \in P : \A j \in P : i <= j
                     IN  club.lat = club_df[first].lat /\ club.lon = club_df[first].lon

\* C17: two clubs with equal pointAvg are ranked in the order of the grouping
\* iteration (ascending country code, then team identifier), which makes the
\* ranking and every overallPosition a function of the two input tables.
C17_TiesInGroupingOrder ==
    ClubStageDone =>
        \A i \in 1..Len(club_results_df) : \A j \in 1..Len(club_results_df) :
            (i < j /\ club_results_df[i].point_avg = club_results_df[j].point_avg)
            => KeyBefore(<<club_results_df[i].country_code, club_results_df[i].team_code>>,
                         <<club_results_df[j].country_code, club_results_df[j].team_code>>)

TabsShown == pc \in {"tab6", "done"}

\* C18: in Tier 1, for every number of clubs in the tier from 1 to 20, the
\* club at local position 1 carries the Champion marker and the clubs at the
\* last 3 local positions carry the relegation marker.
C18_TierOneMarkers ==
    TabsShown =>
        LET n == Len(tiers_data[1])
        IN  (1 <= n /\ n <= 20) =>
                /\ tiers_data[1][1].Status = "Champion"
                /\ \A k \in 1..n :
                       k > n - 3 => tiers_data[1][k].Status = "Relegation"

\* C19: in each of Tiers 2, 3 and 4, for every number of clubs in the tier
\* from 1 to 24, the clubs at local positions 1-2 carry the promotion marker,
\* those at local positions 3-6 the playoff marker and those at the last 3
\* local positions the relegation marker.
C19_LowerTierMarkers ==
    TabsShown =>
        \A t \in 2..4 :
            LET n == Len(tiers_data[t])
            IN  (1 <= n /\ n <= 24) =>
                    \A k \in 1..n :
                        /\ k <= 2 => tiers_data[t][k].Status = "Promotion"
                        /\ (3 <= k /\ k <= 6) => tiers_data[t][k].Status = "Playoffs"
                        /\ k > n - 3 => tiers_data[t][k].Status = "Relegation"

\* C20: every run of the script computes both stages from the tables as they
\* are at that run: the nation table is one computed from the current country
\* table and the club tables are those computed from the current club table
\* and that nation table, also in a run after a change to the club table
\* alone; a result stored by an earlier run is never returned.
C20_RecomputedFromCurrentTables ==
    /\ Loaded => league_df \in LoadAndCalculateData(league_csv)
    /\ ClubStageDone =>
           LET df == [i \in 1..Len(club_csv) |-> ClubRow(club_csv[i])]
           IN  /\ club_df = df
               /\ club_results_df \in Ranked(ClubResults(league_df, df))

\* a run after a change to the club table alone has ranked the clubs; the
\* caches hold an entry and the country table is the one the run before read
C20_Witness ==
    /\ pc = "ranked"
    /\ changed = {"club"}
    /\ Len(league_cache) > 0
    /\ Len(club_cache) > 0
    /\ Len(club_results_df) = 2
    /\ Len(club_df) = Len(club_csv)

\* C21: for a club with k season records, 1 <= k < 5, the average row
\* coefficient is the sum of its k row coefficients (a null one counted as 0)
\* divided by k, the number of records it has, and not by the constant 5 of
\* the nation sub-scores: seasons the club has no record of are not counted
\* as zeros.
C21_FewRecordsMeanOverCount ==
    ClubStageDone =>
        \A c \in 1..Len(club_results_df) :
            LET club == club_results_df[c]
                R == RecordsOf(club.country_code, club.team_code)
                k == Cardinality(R)
                sum == SumOfCoefficients(R)
            IN  (1 <= k /\ k < 5) =>
                    /\ club.avg_coefficient * k = sum * MeanScale
                    /\ sum > 0 => club.avg_coefficient > (sum * MeanScale) \div 5

\* a club with 3 records in a country with a positive nation score: two with
\* different positive coefficients and one with a null coefficient
C21_Witness ==
    /\ ClubStageDone
    /\ Len(club_df) = 3
    /\ Len(club_results_df) = 1
    /\ club_results_df[1].nation_coef > 0
    /\ club_results_df[1].avg_coefficient > 0
    /\ \E i, j, n \in 1..3 :
           /\ club_df[n].row_coefficient = NaN
           /\ club_df[i].row_coefficient > 0
           /\ club_df[j].row_coefficient > club_df[i].row_coefficient

====
